---------------------------- MODULE Spec2Model ----------------------------
(***************************************************************************)
(* A model of the landmark-table preprocessing and tensor-pipeline code of *)
(* tssi_densenet121_wlasl100: src/preprocessing.py and src/dataset.py.     *)
(*                                                                         *)
(* Numbers.  A coordinate is a float in the code.  The model keeps it as   *)
(* an exact fraction <<n, d>> in lowest terms with d >= 0; d = 0 encodes   *)
(* the non-finite IEEE values: <<0,0>> is NaN, <<1,0>> is +inf and         *)
(* <<-1,0>> is -inf.  Rounding is not modelled.                            *)
(*                                                                         *)
(* Tensors.  A dense batch (examples, frames, joints, channels) is a       *)
(* record [width, ex]: ex is the sequence of examples, an example a        *)
(* sequence of frames, a frame a sequence (over joints) of channel         *)
(* triples; width is the size of the joint axis, kept apart because a      *)
(* batch of zero frames still has one.                                     *)
(***************************************************************************)
EXTENDS Integers, Sequences, FiniteSets, TLC

VARIABLES
    \* ---- train_map_fn (dataset.py:164-170) ----
    x,              \* the tensor flowing through train_map_fn (a batch of one)
    norm_in,        \* what the length normalization received
    map_pc,         \* position in train_map_fn
    \* ---- TranslationScaleInvariant (preprocessing.py:224-289) ----
    batch,          \* the layer's input batch
    tsi_out,        \* the layer's output batch
    tsi_pc,         \* "idle" | "ready" | "done"
    \* ---- the Dataset object (dataset.py:110-132) ----
    train_dataframe,
    validation_dataframe,
    test_dataframe, \* <<>> is None, <<table>> a supplied table
    num_train_examples,
    num_val_examples,
    num_test_examples,
    num_total_examples,
    \* ---- the calls made on the object ----
    last_call,      \* the method or function called last
    call_log,       \* what that call did, in order
    raised,         \* the exception it ended with, "" when none
    ncalls,         \* calls made so far
    ds,             \* the dataset dataframe_to_dataset returned last
    \* ---- generate_test_dataset (dataset.py:81-107) ----
    dataframe,      \* its dataframe argument
    batch_size,     \* its batch_size argument
    elements,       \* the dataset of dataframe_to_dataset
    pos,            \* elements consumed by bucket_by_sequence_length
    windows,        \* bucket id -> the elements waiting in that bucket
    bucketed,       \* the batches bucket_by_sequence_length emitted
    mapped,         \* the batches test_map_fn returned, as produced
    eval_pc,        \* "idle" | "bucketing" | "flushing" | "exhausted"
    \* ---- the table functions of preprocessing.py ----
    df_in,          \* the table passed
    df_args,        \* the function called and its keyword arguments
    df_out,         \* the table returned
    df_pc,          \* "idle" | "ready" | "done"
    \* ---- generate_train_dataset (dataset.py:49-78) ----
    t_args,         \* [deterministic, repeat, batch_size, buffer_size]
    t_source,       \* the dataset of dataframe_to_dataset
    t_read,         \* elements shuffle has read from it in this pass
    t_buffer,       \* the shuffle buffer, as positions in t_source
    t_inflight,     \* positions the parallel map is working on
    t_batch,        \* the batch being filled
    t_prefetch,     \* the batches held by prefetch
    t_emitted,      \* the batches handed to the consumer in this pass
    t_epoch,        \* the pass under way, from 1
    t_pc,           \* "idle" | "running" | "drained" | "end"
    \* ---- .cache() of generate_test_dataset (dataset.py:105) ----
    c_pass,         \* the pass under way over the returned dataset, from 1
    cache,          \* the batches the cache holds, in the order written
    cache_complete, \* the cache was written to the end of the input
    c_done,         \* bucketed batches mapped in the pass under way
    served,         \* the batches the pass under way has yielded
    history         \* the sequences the finished passes yielded

mapVars == <<x, norm_in, map_pc>>
tsiVars == <<batch, tsi_out, tsi_pc>>
fieldVars == <<train_dataframe, validation_dataframe, test_dataframe,
               num_train_examples, num_val_examples, num_test_examples,
               num_total_examples>>
callVars == <<last_call, call_log, raised, ncalls, ds>>
objVars == <<fieldVars, callVars>>
evalVars == <<dataframe, batch_size, elements, pos, windows, bucketed,
              mapped, eval_pc>>
dfVars == <<df_in, df_args, df_out, df_pc>>
trainVars == <<t_args, t_source, t_read, t_buffer, t_inflight, t_batch,
               t_prefetch, t_emitted, t_epoch, t_pc>>
cacheVars == <<c_pass, cache, cache_complete, c_done, served, history>>
pipeVars == <<trainVars, cacheVars>>
vars == <<mapVars, tsiVars, objVars, evalVars, dfVars, pipeVars>>

-----------------------------------------------------------------------------
(* Bounds of the model and the configuration constants it scales down.     *)

\* config.INPUT_HEIGHT / config.INPUT_WIDTH (imported at dataset.py:2)
INPUT_HEIGHT == 2
INPUT_WIDTH == 1
\* the longest example the train_map_fn specification feeds or augments to
MaxFrames == 4
\* frames of a TranslationScaleInvariant input example
TSIFrames == 3
\* videos of a table of the Dataset object, and calls made on the object
MaxObjVideos == 2
MaxCalls == 3
\* videos, frames per video and batch size of an evaluation table
MaxVideos == 3
MaxLen == 3
MaxBatch == 2

-----------------------------------------------------------------------------
(* Exact fractions with the IEEE special values.                           *)

Abs(n) == IF n < 0 THEN -n ELSE n
Sign(n) == IF n < 0 THEN -1 ELSE IF n > 0 THEN 1 ELSE 0
Max2(a, b) == IF a >= b THEN a ELSE b
Min2(a, b) == IF a <= b THEN a ELSE b

RECURSIVE GCD(_, _)
GCD(a, b) == IF b = 0 THEN a ELSE GCD(b, a % b)

Frac(n, d) ==
    IF d = 0 THEN <<Sign(n), 0>>
    ELSE LET g == GCD(Abs(n), Abs(d))
             s == Sign(d)
         IN  <<(s * n) \div g, (s * d) \div g>>

R(n) == <<n, 1>>
NaN == <<0, 0>>
Zero == <<0, 1>>
One == <<1, 1>>
IsNaN(a) == a = NaN
IsFinite(a) == a[2] # 0

RAdd(a, b) == IF IsNaN(a) \/ IsNaN(b) THEN NaN
              ELSE Frac(a[1] * b[2] + b[1] * a[2], a[2] * b[2])
RNeg(a) == <<-a[1], a[2]>>
RSub(a, b) == RAdd(a, RNeg(b))
RMul(a, b) == Frac(a[1] * b[1], a[2] * b[2])
RDiv(a, b) == Frac(a[1] * b[2], a[2] * b[1])
RAbs(a) == <<Abs(a[1]), a[2]>>
\* comparisons with NaN are false, as in IEEE
RLess(a, b) == ~IsNaN(a) /\ ~IsNaN(b) /\ a # b
               /\ (IF a[2] = 0 /\ b[2] = 0 THEN a[1] < b[1]
                   ELSE a[1] * b[2] < b[1] * a[2])
RLeq(a, b) == ~IsNaN(a) /\ ~IsNaN(b) /\ (a = b \/ RLess(a, b))

-----------------------------------------------------------------------------
(* Tensor helpers.                                                         *)

ZeroFrame(width) == [j \in 1..width |-> <<Zero, Zero, Zero>>]
EmptyBatch == [width |-> INPUT_WIDTH, ex |-> <<>>]
\* tf.shape(images)[1]
Height(images) == Len(images.ex[1])

MapIdle == /\ x = EmptyBatch /\ norm_in = EmptyBatch /\ map_pc = "idle"
TsiIdle == /\ batch = EmptyBatch /\ tsi_out = EmptyBatch /\ tsi_pc = "idle"
TrainIdle ==
    /\ t_args = [deterministic |-> TRUE, repeat |-> FALSE, batch_size |-> 0,
                 buffer_size |-> 0]
    /\ t_source = <<>> /\ t_read = 0 /\ t_buffer = {} /\ t_inflight = {}
    /\ t_batch = <<>> /\ t_prefetch = <<>> /\ t_emitted = <<>>
    /\ t_epoch = 0 /\ t_pc = "idle"
CacheIdle ==
    /\ c_pass = 0 /\ cache = <<>> /\ cache_complete = FALSE /\ c_done = {}
    /\ served = <<>> /\ history = <<>>

LerpVal(a, b, t) == RAdd(a, RMul(RSub(b, a), t))
LerpTriple(p, q, t) == [c \in 1..3 |-> LerpVal(p[c], q[c], t)]
LerpFrame(f, g, t) == [j \in DOMAIN f |-> LerpTriple(f[j], g[j], t)]

\* tf.image.resize, bilinear with half-pixel centres: the source position of
\* output index i (0-based) is (i + 1/2) * in_size / out_size - 1/2
SrcNum(i, in_size, out_size) == (2 * i + 1) * in_size - out_size
SrcLower(i, in_size, out_size) ==
    Max2(SrcNum(i, in_size, out_size) \div (2 * out_size), 0)
SrcUpper(i, in_size, out_size) ==
    Min2(-((-SrcNum(i, in_size, out_size)) \div (2 * out_size)), in_size - 1)
SrcLerp(i, in_size, out_size) ==
    LET num == SrcNum(i, in_size, out_size)
        den == 2 * out_size
    IN  Frac(num - (num \div den) * den, den)

ResizeExample(e, in_w, new_h, new_w) ==
    LET h == Len(e)
        rows == [i \in 1..new_h |->
                    LerpFrame(e[SrcLower(i - 1, h, new_h) + 1],
                              e[SrcUpper(i - 1, h, new_h) + 1],
                              SrcLerp(i - 1, h, new_h))]
    IN  [i \in 1..new_h |->
            [j \in 1..new_w |->
                LerpTriple(rows[i][SrcLower(j - 1, in_w, new_w) + 1],
                           rows[i][SrcUpper(j - 1, in_w, new_w) + 1],
                           SrcLerp(j - 1, in_w, new_w))]]

\* tf.image.resize(images, [new_h, new_w])
ImageResize(images, new_h, new_w) ==
    [width |-> new_w,
     ex |-> [k \in DOMAIN images.ex |->
                ResizeExample(images.ex[k], images.width, new_h, new_w)]]

-----------------------------------------------------------------------------
(* Length-normalization layers, preprocessing.py:169-197.                  *)

\* the padding computed from the joint axis instead of the frame axis
PadIfWidthLessThan(frames, images) ==
    LET height == Height(images)
        width == images.width
        height_pad == Max2(0, frames - width)
    IN  [images EXCEPT !.ex =
            [k \in DOMAIN images.ex |->
                images.ex[k] \o [p \in 1..height_pad |-> ZeroFrame(width)]]]

PadIfLessThan(frames, images) ==
    LET height == Height(images)
        width == images.width
        height_pad == Max2(0, frames - height)
    IN  [images EXCEPT !.ex =
            [k \in DOMAIN images.ex |->
                images.ex[k] \o [p \in 1..height_pad |-> ZeroFrame(width)]]]

\* a slip in the comparison: resizes the short inputs and keeps the long ones
ResizeIfLessThan(frames, images) ==
    LET height == Height(images)
        width == images.width
    IN  IF height < frames THEN ImageResize(images, frames, width)
        ELSE images

ResizeIfMoreThan(frames, images) ==
    LET height == Height(images)
        width == images.width
    IN  IF height > frames THEN ImageResize(images, frames, width)
        ELSE images

-----------------------------------------------------------------------------
(* Landmark tables.  A table is [columns, rows]: columns is the sequence   *)
(* of coordinate column names that follow the three metadata columns       *)
(* video, frame, label; a row is [video, frame, label, cells] with cells   *)
(* a function from column name to coordinate.                              *)

\* tssi_v2()[2], the joint order (dataset.py:113), scaled down to one joint
joints_order == <<"pose_0">>
Labels == {0, 1}

RECURSIVE SortSet(_)
SortSet(S) ==
    IF S = {} THEN <<>>
    ELSE LET m == CHOOSE m \in S : \A v \in S : m <= v
         IN  <<m>> \o SortSet(S \ {m})

\* df["video"].unique()
VideoIds(df) == {df.rows[r].video : r \in DOMAIN df.rows}
\* df.groupby("video"): the groups come in ascending order of the key
GroupKeys(df) == SortSet(VideoIds(df))
GroupRows(df, v) == {r \in DOMAIN df.rows : df.rows[r].video = v}
\* df.groupby("video").size().max()
MaxGroupSize(df) ==
    LET sizes == {Cardinality(GroupRows(df, v)) : v \in VideoIds(df)}
    IN  CHOOSE m \in sizes : \A n \in sizes : n <= m

RECURSIVE SumSeq(_)
SumSeq(q) == IF q = <<>> THEN 0 ELSE q[1] + SumSeq(Tail(q))
Prefix(q, n) == [i \in 1..n |-> q[i]]

\* a table whose rows are grouped by video, video v = 1..Len(lens) having
\* lens[v] frames and label labs[v]; the one joint carries (video, frame)
TableRow(v, f, l) ==
    [video |-> v, frame |-> f, label |-> l,
     cells |-> [c \in {"pose_0_x", "pose_0_y"} |->
                   IF c = "pose_0_x" THEN R(v) ELSE R(f)]]
RECURSIVE TableRows(_, _, _)
TableRows(lens, labs, v) ==
    IF v > Len(lens) THEN <<>>
    ELSE [f \in 1..lens[v] |-> TableRow(v, f - 1, labs[v])]
         \o TableRows(lens, labs, v + 1)
TableOf(lens, labs) ==
    [columns |-> <<"pose_0_x", "pose_0_y">>, rows |-> TableRows(lens, labs, 1)]
EmptyTable == [columns |-> <<>>, rows |-> <<>>]

-----------------------------------------------------------------------------
(* dataframe_to_dataset, dataset.py:23-46.                                 *)

\* OneHotEncoder().fit_transform: one column per distinct value, ascending
OneHot(categories, l) ==
    [i \in 1..Len(categories) |-> IF categories[i] = l THEN 1 ELSE 0]

\* enc = OneHotEncoder(); enc.fit_transform(video_labels): the encoder is
\* created in the function and fitted on the labels of the table it is given
OneHotFitTransform(video_labels, g) ==
    OneHot(SortSet({video_labels[k] : k \in DOMAIN video_labels}),
           video_labels[g])

dataframe_to_dataset(df0, columns, filter_video_ids) ==
    LET df == IF filter_video_ids # {}
              THEN [df0 EXCEPT !.rows =
                       SelectSeq(df0.rows,
                                 LAMBDA r : r.video \in filter_video_ids)]
              ELSE df0
        dataframe_length == Len(df.rows)
        num_columns == Len(columns)
        stacked_images ==
            [r \in 1..dataframe_length |->
                [j \in 1..num_columns |->
                    <<df.rows[r].cells[columns[j] \o "_x"],
                      df.rows[r].cells[columns[j] \o "_y"],
                      Zero>>]]
        keys == GroupKeys(df)
        \* groupby("video")["label"].unique(): one label per video
        video_labels ==
            [g \in DOMAIN keys |->
                CHOOSE l \in {df.rows[r].label : r \in GroupRows(df, keys[g])} :
                    TRUE]
        video_lengths ==
            [g \in DOMAIN keys |-> Cardinality(GroupRows(df, keys[g]))]
        \* tf.RaggedTensor.from_row_lengths(values, row_lengths)
        X == [g \in DOMAIN keys |->
                 LET start == SumSeq(Prefix(video_lengths, g - 1))
                 IN  [i \in 1..video_lengths[g] |-> stacked_images[start + i]]]
    IN  [g \in DOMAIN keys |->
            [x |-> X[g], y |-> OneHotFitTransform(video_labels, g)]]

-----------------------------------------------------------------------------
(* The Dataset object, dataset.py:110-246.                                 *)

\* get_training_set, get_validation_set and get_testing_set each start with
\*   preprocess_dataframe(table, with_root=True, with_midhip=False,
\*                        normalization=normalization)
\* and preprocess_dataframe (preprocessing.py:29) declares no parameter named
\* normalization: the call raises TypeError before the function body runs, so
\* none of the three methods gets as far as building a dataset.  The pipeline
\* functions they would call are modelled as calls of their own.
NotProvided == "Exception: Test dataframe was not provided"
TypeError == "TypeError: preprocess_dataframe() got an unexpected keyword argument 'normalization'"

TestSupplied == test_dataframe # <<>>

\* dataset.py:118: the total is formed from the train and validation counts
TotalExamples(n_train, n_val, n_test) == n_train + n_val

\* Dataset.__init__(train_dataframe, validation_dataframe, test_dataframe)
DatasetInit(train, validation, test) ==
    /\ train_dataframe = train
    /\ validation_dataframe = validation
    /\ test_dataframe = test
    /\ num_train_examples = Cardinality(VideoIds(train))
    /\ num_val_examples = Cardinality(VideoIds(validation))
    /\ num_test_examples =
          IF test # <<>> THEN Cardinality(VideoIds(test[1])) ELSE 0
    /\ num_total_examples =
          TotalExamples(Cardinality(VideoIds(train)),
                        Cardinality(VideoIds(validation)),
                        IF test # <<>> THEN Cardinality(VideoIds(test[1])) ELSE 0)

Called(name, log, exc) ==
    /\ ncalls < MaxCalls
    /\ ncalls' = ncalls + 1
    /\ last_call' = name
    /\ call_log' = log
    /\ raised' = exc

get_training_set ==
    /\ Called("get_training_set", <<"preprocess_dataframe">>, TypeError)
    /\ ds' = <<>>
    /\ UNCHANGED <<fieldVars, mapVars, tsiVars, evalVars, dfVars, pipeVars>>

get_validation_set ==
    /\ Called("get_validation_set", <<"preprocess_dataframe">>, TypeError)
    /\ ds' = <<>>
    /\ UNCHANGED <<fieldVars, mapVars, tsiVars, evalVars, dfVars, pipeVars>>

\* the guard placed after the preprocessing call
get_testing_set_guard_last ==
    /\ Called("get_testing_set", <<"preprocess_dataframe">>, TypeError)
    /\ ds' = <<>>
    /\ UNCHANGED <<fieldVars, mapVars, tsiVars, evalVars, dfVars, pipeVars>>

get_testing_set ==
    /\ IF test_dataframe = <<>>
       THEN Called("get_testing_set", <<>>, NotProvided)
       ELSE Called("get_testing_set", <<"preprocess_dataframe">>, TypeError)
    /\ ds' = <<>>
    /\ UNCHANGED <<fieldVars, mapVars, tsiVars, evalVars, dfVars, pipeVars>>

\* dataframe_to_dataset(dataframe, columns, video_ids) as generate_train_dataset
\* (dataset.py:58) and generate_test_dataset (dataset.py:87) call it, with
\* video_ids = [], on the table of one split
SplitTable(split) ==
    CASE split = "train" -> train_dataframe
      [] split = "validation" -> validation_dataframe
      [] split = "test" -> test_dataframe[1]

dataframe_to_dataset_call ==
    \E split \in {"train", "validation", "test"} :
        /\ split = "test" => TestSupplied
        /\ Called(split, <<"dataframe_to_dataset">>, "")
        /\ ds' = dataframe_to_dataset(SplitTable(split), joints_order, {})
        /\ UNCHANGED <<fieldVars, mapVars, tsiVars, evalVars, dfVars, pipeVars>>

\* the tables of the Dataset specification: videos 1..n of one or two frames
ObjTables ==
    UNION {{TableOf([v \in 1..n |-> (v % 2) + 1], labs) :
                labs \in [1..n -> Labels]} : n \in 1..MaxObjVideos}

ObjIdle ==
    /\ DatasetInit(EmptyTable, EmptyTable, <<>>)
    /\ last_call = "" /\ call_log = <<>> /\ raised = "" /\ ncalls = 0
    /\ ds = <<>>

DfIdle ==
    /\ df_in = EmptyTable /\ df_out = EmptyTable /\ df_pc = "idle"
    /\ df_args = [fn |-> "", with_root |-> FALSE, with_midhip |-> FALSE]

EvalIdle ==
    /\ dataframe = EmptyTable /\ batch_size = 0 /\ elements = <<>>
    /\ pos = 0 /\ windows = <<>> /\ bucketed = <<>> /\ mapped = <<>>
    /\ eval_pc = "idle"

Init ==
    /\ \E train \in ObjTables, validation \in ObjTables :
       \E test \in {<<>>} \cup {<<t>> : t \in ObjTables} :
          DatasetInit(train, validation, test)
    /\ last_call = "" /\ call_log = <<>> /\ raised = "" /\ ncalls = 0
    /\ ds = <<>>
    /\ MapIdle
    /\ TsiIdle
    /\ TrainIdle
    /\ CacheIdle
    /\ EvalIdle
    /\ DfIdle

Next ==
    \/ get_training_set
    \/ get_validation_set
    \/ get_testing_set
    \/ dataframe_to_dataset_call

Spec == Init /\ [][Next]_vars

AllLabels ==
    {train_dataframe.rows[r].label : r \in DOMAIN train_dataframe.rows}
    \cup {validation_dataframe.rows[r].label :
             r \in DOMAIN validation_dataframe.rows}
    \cup (IF TestSupplied
          THEN {test_dataframe[1].rows[r].label :
                   r \in DOMAIN test_dataframe[1].rows}
          ELSE {})

\* C3: in every dataset built from a table of the Dataset object the one-hot
\* label vector is as wide as the number of distinct labels of the training,
\* validation and (when supplied) test tables together.
C3_OneHotWidthCountsAllLabels ==
    (last_call \in {"train", "validation", "test"} /\ raised = "") =>
        \A g \in DOMAIN ds : Len(ds[g].y) = Cardinality(AllLabels)

\* C6: without a test table get_testing_set raises the explicit error, before
\* any preprocessing or dataset construction and whatever calls came before;
\* the call changes no field of the object; with a test table, and in every
\* other method, that error is never raised.
C6_TestingSetWithoutTableRaises ==
    /\ [](last_call = "get_testing_set" =>
            /\ ~TestSupplied =>
                  (raised = NotProvided /\ call_log = <<>> /\ ds = <<>>)
            /\ TestSupplied => raised # NotProvided)
    /\ [](last_call # "get_testing_set" => raised # NotProvided)
    /\ [][(ncalls' # ncalls /\ last_call' = "get_testing_set")
            => UNCHANGED fieldVars]_vars

\* get_testing_set raised the explicit error after two other calls
C6_Witness ==
    /\ last_call = "get_testing_set"
    /\ ~TestSupplied
    /\ raised = NotProvided
    /\ ncalls >= 3

\* the position of a name in the call log, 0 when it is not there
LogIndex(name) ==
    IF \E i \in DOMAIN call_log : call_log[i] = name
    THEN CHOOSE i \in DOMAIN call_log : call_log[i] = name
    ELSE 0

\* C12: a call of get_training_set, get_validation_set or get_testing_set
\* (with a test table) preprocesses and normalizes the table before it hands
\* it to dataframe_to_dataset, and returns a dataset whose coordinates lie in
\* the range of the normalization mode.
C12_NormalizerPrecedesBuilder ==
    (/\ last_call \in {"get_training_set", "get_validation_set", "get_testing_set"}
     /\ last_call = "get_testing_set" => TestSupplied) =>
        /\ raised = ""
        /\ 0 < LogIndex("preprocess_dataframe")
        /\ LogIndex("preprocess_dataframe") < LogIndex("normalize_dataframe")
        /\ LogIndex("normalize_dataframe") < LogIndex("dataframe_to_dataset")
        /\ \A g \in DOMAIN ds : \A f \in DOMAIN ds[g].x :
              \A j \in DOMAIN ds[g].x[f] : \A c \in 1..2 :
                  /\ RLeq(R(-1), ds[g].x[f][j][c])
                  /\ RLeq(ds[g].x[f][j][c], One)

\* C9: the total is the sum of the three per-split counts of distinct videos,
\* the test count being 0 when no test table was supplied.
C9_TotalCountsEverySuppliedTable ==
    /\ num_train_examples = Cardinality(VideoIds(train_dataframe))
    /\ num_val_examples = Cardinality(VideoIds(validation_dataframe))
    /\ num_test_examples =
          IF TestSupplied THEN Cardinality(VideoIds(test_dataframe[1])) ELSE 0
    /\ num_total_examples =
          num_train_examples + num_val_examples + num_test_examples

-----------------------------------------------------------------------------
(* generate_test_dataset, dataset.py:81-107, with the map function of      *)
(* get_validation_set and get_testing_set.                                 *)

\* bucket_boundaries = list(range(1, max_element_length))
bucket_boundaries(max_element_length) ==
    [i \in 1..(max_element_length - 1) |-> i]

\* bucket_batch_sizes = [batch_size] * max_element_length
bucket_batch_sizes(size, max_element_length) ==
    [i \in 1..max_element_length |-> size]

\* bucket_by_sequence_length's element_to_bucket_id: the first bucket b, from
\* 0, with buckets_min[b] <= length < buckets_max[b], where buckets_min is
\* the boundaries after -infinity and buckets_max the boundaries before
\* +infinity
element_to_bucket_id(length, boundaries) ==
    LET n == Len(boundaries)
        fits(b) == /\ (b = 0 \/ boundaries[b] <= length)
                   /\ (b = n \/ length < boundaries[b + 1])
    IN  CHOOSE b \in 0..n : fits(b) /\ \A c \in 0..(b - 1) : ~fits(c)

\* element_length_func = lambda x, y: tf.shape(x)[0]
element_length_func(e) == Len(e.x)

\* RaggedTensor.to_tensor(): rows padded with zeros to the longest row
to_tensor(b) ==
    LET longest == CHOOSE m \in {Len(b[k].x) : k \in DOMAIN b} :
                       \A k \in DOMAIN b : Len(b[k].x) <= m
    IN  [width |-> Len(joints_order),
         ex |-> [k \in DOMAIN b |->
                    b[k].x \o [p \in 1..(longest - Len(b[k].x)) |->
                                  ZeroFrame(Len(joints_order))]]]

\* val_map_fn (dataset.py:199-203) and test_map_fn (dataset.py:234-238)
test_map_fn(b) ==
    [x |-> PadIfLessThan(INPUT_HEIGHT, to_tensor(b)),
     y |-> [k \in DOMAIN b |-> b[k].y]]

NumBuckets == Len(windows)
Boundaries ==
    IF dataframe.rows = <<>> THEN <<>>
    ELSE bucket_boundaries(MaxGroupSize(dataframe))

\* group_by_window: the element joins the window of its bucket, and a window
\* that reaches the bucket's batch size is emitted as one batch
BucketPull ==
    /\ eval_pc = "bucketing"
    /\ pos < Len(elements)
    /\ LET e == elements[pos + 1]
           id == element_to_bucket_id(element_length_func(e), Boundaries) + 1
           w == Append(windows[id], e)
           full == Len(w) = bucket_batch_sizes(batch_size, NumBuckets)[id]
       IN  /\ windows' = [windows EXCEPT ![id] = IF full THEN <<>> ELSE w]
           /\ bucketed' = IF full THEN Append(bucketed, w) ELSE bucketed
    /\ pos' = pos + 1
    /\ UNCHANGED <<dataframe, batch_size, elements, mapped, eval_pc>>
    /\ UNCHANGED <<mapVars, tsiVars, objVars, dfVars, pipeVars>>

\* the input is exhausted: the windows left are emitted, short batches
BucketFlush ==
    /\ eval_pc \in {"bucketing", "flushing"}
    /\ pos = Len(elements)
    /\ \/ /\ \E id \in DOMAIN windows :
               /\ windows[id] # <<>>
               /\ bucketed' = Append(bucketed, windows[id])
               /\ windows' = [windows EXCEPT ![id] = <<>>]
          /\ eval_pc' = "flushing"
       \/ /\ \A id \in DOMAIN windows : windows[id] = <<>>
          /\ eval_pc # "exhausted"
          /\ eval_pc' = "exhausted"
          /\ UNCHANGED <<windows, bucketed>>
    /\ UNCHANGED <<dataframe, batch_size, elements, pos, mapped>>
    /\ UNCHANGED <<mapVars, tsiVars, objVars, dfVars, pipeVars>>

\* .map(test_map_fn, num_parallel_calls=AUTOTUNE, deterministic=False): the
\* batches are mapped once each, and may come out in another order
MapBatch ==
    /\ \E i \in DOMAIN bucketed :
          /\ \A m \in DOMAIN mapped : mapped[m].index # i
          /\ mapped' = Append(mapped, [index |-> i, out |-> test_map_fn(bucketed[i])])
    /\ UNCHANGED <<dataframe, batch_size, elements, pos, windows, bucketed,
                   eval_pc>>
    /\ UNCHANGED <<mapVars, tsiVars, objVars, dfVars, pipeVars>>

\* generate_test_dataset(dataframe, columns, [], test_map_fn, batch_size)
GenerateTestDataset(df, size) ==
    /\ dataframe = df
    /\ batch_size = size
    /\ elements = dataframe_to_dataset(df, joints_order, {})
    /\ pos = 0
    /\ windows = [b \in 1..MaxGroupSize(df) |-> <<>>]
    /\ bucketed = <<>>
    /\ mapped = <<>>
    /\ eval_pc = "bucketing"

\* the evaluation tables: one to MaxVideos videos of 1..MaxLen frames each
EvalTables ==
    UNION {{TableOf(lens, [v \in 1..n |-> v % 2]) :
                lens \in [1..n -> 1..MaxLen]} : n \in 1..MaxVideos}

InitEval ==
    /\ \E df \in EvalTables, size \in 1..MaxBatch : GenerateTestDataset(df, size)
    /\ MapIdle
    /\ TsiIdle
    /\ TrainIdle
    /\ CacheIdle
    /\ ObjIdle
    /\ DfIdle

NextEval == BucketPull \/ BucketFlush \/ MapBatch

SpecEval == InitEval /\ [][NextEval]_vars

\* the frame counts of the videos of the i-th bucketed batch
BatchLengths(i) == {Len(bucketed[i][k].x) : k \in DOMAIN bucketed[i]}
Longest(i) == CHOOSE m \in BatchLengths(i) : \A n \in BatchLengths(i) : n <= m

\* C1: no batch of generate_test_dataset holds two videos of different frame
\* counts, a video of the maximum length and one a frame shorter included.
C1_BatchesHoldOneFrameCount ==
    \A i \in DOMAIN bucketed : Cardinality(BatchLengths(i)) = 1

\* C7 as stated: every validation batch has exactly INPUT_HEIGHT frames.
C7_ValidationBatchesHaveInputHeight ==
    \A m \in DOMAIN mapped : Height(mapped[m].out.x) = INPUT_HEIGHT

\* C7, amended: a validation batch has shape (videos of the batch, H,
\* INPUT_WIDTH, 3) with H the larger of INPUT_HEIGHT and the frame count of
\* the longest video of the batch; so H is INPUT_HEIGHT exactly when no video
\* of the batch is longer than INPUT_HEIGHT.
C7_ValidationBatchesArePaddedOnly ==
    \A m \in DOMAIN mapped :
        LET out == mapped[m].out
            i == mapped[m].index
        IN  /\ Len(out.x.ex) = Len(bucketed[i])
            /\ Len(out.y) = Len(bucketed[i])
            /\ out.x.width = INPUT_WIDTH
            /\ \A k \in DOMAIN out.x.ex :
                  /\ Len(out.x.ex[k]) = Max2(INPUT_HEIGHT, Longest(i))
                  /\ \A f \in DOMAIN out.x.ex[k] :
                        /\ Len(out.x.ex[k][f]) = INPUT_WIDTH
                        /\ \A j \in 1..INPUT_WIDTH : Len(out.x.ex[k][f][j]) = 3
            /\ (Height(out.x) = INPUT_HEIGHT <=> Longest(i) <= INPUT_HEIGHT)

\* a mapped batch of a video longer than INPUT_HEIGHT and one of a shorter video
C7_Witness ==
    /\ \E m \in DOMAIN mapped :
          /\ Longest(mapped[m].index) > INPUT_HEIGHT
          /\ Height(mapped[m].out.x) = Longest(mapped[m].index)
    /\ \E m \in DOMAIN mapped :
          /\ Longest(mapped[m].index) < INPUT_HEIGHT
          /\ Height(mapped[m].out.x) = INPUT_HEIGHT

-----------------------------------------------------------------------------
(* train_map_fn, dataset.py:164-170, one step per statement.               *)

\* the coordinates a frame of the train_map_fn specification may carry
FrameVals == {1, 2}
FrameOf(v) == [j \in 1..INPUT_WIDTH |-> <<R(v), R(-v), Zero>>]
ExamplesOfLen(h) == {[i \in 1..h |-> FrameOf(f[i])] : f \in [1..h -> FrameVals]}
RawExamples == UNION {ExamplesOfLen(h) : h \in 1..MaxFrames}

\* tf.expand_dims(x, axis=0)
ExpandDims(e) == [width |-> INPUT_WIDTH, ex |-> <<e>>]

\* train_augmentation(batch, training=True): the layers of data_augmentation
\* are not part of the sources; RandomSpeed changes the number of frames, so
\* the result is any batch of one example of the same width
AugmentationOutputs ==
    {ExpandDims(e) : e \in UNION {ExamplesOfLen(h) : h \in 0..MaxFrames}}

Augment ==
    /\ map_pc = "start"
    /\ x' \in AugmentationOutputs
    /\ norm_in' = x'
    /\ map_pc' = "augmented"
    /\ UNCHANGED <<tsiVars, objVars, evalVars, dfVars, pipeVars>>

Pad ==
    /\ map_pc = "augmented"
    /\ x' = PadIfLessThan(INPUT_HEIGHT, x)
    /\ map_pc' = "padded"
    /\ UNCHANGED <<norm_in, tsiVars, objVars, evalVars, dfVars, pipeVars>>

Resize ==
    /\ map_pc = "padded"
    /\ x' = ResizeIfMoreThan(INPUT_HEIGHT, x)
    /\ map_pc' = "resized"
    /\ UNCHANGED <<norm_in, tsiVars, objVars, evalVars, dfVars, pipeVars>>

\* x = batch[0]; tf.ensure_shape(x, [INPUT_HEIGHT, INPUT_WIDTH, 3])
EnsureShape ==
    /\ map_pc = "resized"
    /\ map_pc' = IF Height(x) = INPUT_HEIGHT /\ x.width = INPUT_WIDTH
                 THEN "done" ELSE "raised"
    /\ UNCHANGED <<x, norm_in, tsiVars, objVars, evalVars, dfVars, pipeVars>>

InitLength ==
    /\ x \in {ExpandDims(e) : e \in RawExamples}
    /\ norm_in = EmptyBatch
    /\ map_pc = "start"
    /\ TsiIdle
    /\ TrainIdle
    /\ CacheIdle
    /\ ObjIdle
    /\ EvalIdle
    /\ DfIdle

NextLength == Augment \/ Pad \/ Resize \/ EnsureShape

SpecLength == InitLength /\ [][NextLength]_vars

\* C2: PadIfLessThan(T) followed by ResizeIfMoreThan(T) yields exactly
\* T = INPUT_HEIGHT frames for every input frame count (0 included), keeps the
\* joint axis and the three channels, and returns its input unchanged when
\* that already has T frames; so train_map_fn passes its shape assertion and
\* emits INPUT_HEIGHT frames whatever the augmentation produced.
C2_PadThenResizeYieldsExactlyT ==
    /\ map_pc # "raised"
    /\ map_pc \in {"resized", "done"} =>
        /\ Height(x) = INPUT_HEIGHT
        /\ x.width = norm_in.width
        /\ Len(x.ex) = 1
        /\ \A i \in 1..Height(x) :
              /\ Len(x.ex[1][i]) = norm_in.width
              /\ \A j \in 1..Len(x.ex[1][i]) : Len(x.ex[1][i][j]) = 3
        /\ (Height(norm_in) = INPUT_HEIGHT => x = norm_in)

\* an augmented example longer than INPUT_HEIGHT went through both layers
C2_Witness ==
    /\ map_pc = "done"
    /\ Height(norm_in) > INPUT_HEIGHT
    /\ Height(x) = INPUT_HEIGHT

-----------------------------------------------------------------------------
(* TranslationScaleInvariant at channel level, preprocessing.py:233-256.   *)

\* tf.math.divide: 0/0 is NaN
divide(a, b) == RDiv(a, b)

\* tf.math.divide_no_nan
divide_no_nan(a, b) == IF b = Zero THEN Zero ELSE RDiv(a, b)

\* the values of channel c of one example
ChannelValues(e, c) == {e[i][j][c] : i \in DOMAIN e, j \in 1..INPUT_WIDTH}
RMinOf(S) == CHOOSE m \in S : \A v \in S : RLeq(m, v)
RMaxOf(S) == CHOOSE m \in S : \A v \in S : RLeq(v, m)

\* tf.reduce_min / tf.reduce_max over axes [-1, -2], keepdims: one per example
reduce_min(images, k, c) == RMinOf(ChannelValues(images.ex[k], c))
reduce_max(images, k, c) == RMaxOf(ChannelValues(images.ex[k], c))

channel_level_translation_scale_invariant(images) ==
    [images EXCEPT !.ex =
        [k \in DOMAIN images.ex |->
            [i \in DOMAIN images.ex[k] |->
                [j \in 1..INPUT_WIDTH |->
                    [c \in 1..3 |->
                        divide_no_nan(
                            RSub(images.ex[k][i][j][c], reduce_min(images, k, c)),
                            RSub(reduce_max(images, k, c),
                                 reduce_min(images, k, c)))]]]]]

\* inputs: an example is a pattern of TSIFrames values placed on one channel,
\* its mirror image on the next and a constant on the third, in every rotation
TSIVals == {-1, 0, 2}
TSIPatterns == [1..TSIFrames -> TSIVals]
TSIExample(p, rot) ==
    LET chans == <<[i \in 1..TSIFrames |-> R(p[i])],
                   [i \in 1..TSIFrames |-> R(-p[TSIFrames + 1 - i])],
                   [i \in 1..TSIFrames |-> R(p[1])]>>
    IN  [i \in 1..TSIFrames |->
            [j \in 1..INPUT_WIDTH |->
                [c \in 1..3 |-> chans[((c - 1 + rot) % 3) + 1][i]]]]
TSIExamples == {TSIExample(p, rot) : p \in TSIPatterns, rot \in 0..2}
\* a second example of the batch, of another range
TSIProbes ==
    {[i \in 1..TSIFrames |-> [j \in 1..INPUT_WIDTH |-> <<R(5), R(5), R(5)>>]],
     [i \in 1..TSIFrames |->
        [j \in 1..INPUT_WIDTH |-> <<R(4 * i - 8), R(8 - 4 * i), R(i)>>]]}

TranslationScaleInvariantCall ==
    /\ tsi_pc = "ready"
    /\ tsi_out' = channel_level_translation_scale_invariant(batch)
    /\ tsi_pc' = "done"
    /\ UNCHANGED <<batch, mapVars, objVars, evalVars, dfVars, pipeVars>>

\* the layer is stateless: the next call takes another batch
TranslationScaleInvariantNextBatch ==
    /\ tsi_pc = "done"
    /\ \E e \in TSIExamples, q \in TSIProbes :
          batch' = [width |-> INPUT_WIDTH, ex |-> <<q, e>>]
    /\ tsi_out' = EmptyBatch
    /\ tsi_pc' = "ready"
    /\ UNCHANGED <<mapVars, objVars, evalVars, dfVars, pipeVars>>

InitTSI ==
    /\ \E e \in TSIExamples :
          \/ batch = [width |-> INPUT_WIDTH, ex |-> <<e>>]
          \/ \E q \in TSIProbes : batch = [width |-> INPUT_WIDTH, ex |-> <<e, q>>]
    /\ tsi_out = EmptyBatch
    /\ tsi_pc = "ready"
    /\ MapIdle
    /\ TrainIdle
    /\ CacheIdle
    /\ ObjIdle
    /\ EvalIdle
    /\ DfIdle

NextTSI == TranslationScaleInvariantCall \/ TranslationScaleInvariantNextBatch

SpecTSI == InitTSI /\ [][NextTSI]_vars

\* C10: at channel level every output element of channels 0, 1 and 2 lies in
\* [0,1]; on a non-constant channel the example's minimum goes to 0 and its
\* maximum to 1; every element of a constant channel goes to 0, a finite value.
C10_ChannelLevelInUnitRange ==
    tsi_pc = "done" =>
        \A k \in DOMAIN batch.ex : \A c \in 1..3 :
            LET in == ChannelValues(batch.ex[k], c)
                lo == RMinOf(in)
                hi == RMaxOf(in)
            IN  \A i \in DOMAIN batch.ex[k] : \A j \in 1..INPUT_WIDTH :
                    LET v == batch.ex[k][i][j][c]
                        w == tsi_out.ex[k][i][j][c]
                    IN  /\ IsFinite(w)
                        /\ RLeq(Zero, w) /\ RLeq(w, One)
                        /\ lo = hi => w = Zero
                        /\ (lo # hi /\ v = lo) => w = Zero
                        /\ (lo # hi /\ v = hi) => w = One

\* a batch of two examples holding a constant channel, a non-constant one and
\* an output strictly between 0 and 1
C10_Witness ==
    /\ tsi_pc = "done"
    /\ Len(batch.ex) = 2
    /\ \E c \in 1..3 : Cardinality(ChannelValues(batch.ex[1], c)) = 1
    /\ \E c \in 1..3 : \E i \in DOMAIN tsi_out.ex[1] :
          /\ RLess(Zero, tsi_out.ex[1][i][1][c])
          /\ RLess(tsi_out.ex[1][i][1][c], One)

-----------------------------------------------------------------------------
(* preprocess_dataframe and replace_nan_with_other_column,                 *)
(* preprocessing.py:12-90.                                                 *)

\* rows of a table of the preprocessing specification
MaxRows == 2

SeqRange(q) == {q[i] : i \in DOMAIN q}

\* dataframe.columns[3::2] and dataframe.columns[4::2]: the coordinate
\* columns taken by position, every other one from the first and the second
x_columns(df) ==
    [i \in 1..((Len(df.columns) + 1) \div 2) |-> df.columns[2 * i - 1]]
y_columns(df) ==
    [i \in 1..(Len(df.columns) \div 2) |-> df.columns[2 * i]]
\* dataframe.columns[3:]
xy_columns(df) == df.columns

\* "leftHand" in col, "rightHand" in col, "face" in col, over the column
\* names of the model
Contains(col, part) ==
    col \in (CASE part = "leftHand" -> {"leftHand_0_x", "leftHand_0_y"}
               [] part = "rightHand" -> {"rightHand_0_x", "rightHand_0_y"}
               [] part = "face" -> {"face_0_x", "face_0_y"})
ColumnsWith(cols, part) == SelectSeq(cols, LAMBDA c : Contains(c, part))

\* dataframe[name] = values: a new column goes last
SetColumn(df, name, values) ==
    [columns |-> IF name \in SeqRange(df.columns) THEN df.columns
                 ELSE Append(df.columns, name),
     rows |-> [r \in DOMAIN df.rows |->
                  [df.rows[r] EXCEPT !.cells =
                      [c \in DOMAIN df.rows[r].cells \cup {name} |->
                          IF c = name THEN values[r]
                          ELSE df.rows[r].cells[c]]]]]

\* dataframe.loc[:, columns] = arr
SetCells(df, columns, arr) ==
    [df EXCEPT !.rows =
        [r \in DOMAIN df.rows |->
            [df.rows[r] EXCEPT !.cells =
                [c \in DOMAIN df.rows[r].cells |->
                    IF c \in SeqRange(columns) THEN arr[r][c]
                    ELSE df.rows[r].cells[c]]]]]

\* the fill value read from the first row instead of the cell's own row
replace_nan_with_first_row(df, source_columns, target_column) ==
    [r \in DOMAIN df.rows |->
        [c \in SeqRange(source_columns) |->
            IF IsNaN(df.rows[r].cells[c])
            THEN df.rows[1].cells[target_column]
            ELSE df.rows[r].cells[c]]]

replace_nan_with_other_column(df, source_columns, target_column) ==
    [r \in DOMAIN df.rows |->
        [c \in SeqRange(source_columns) |->
            IF IsNaN(df.rows[r].cells[c])
            THEN df.rows[r].cells[target_column]
            ELSE df.rows[r].cells[c]]]

\* (dataframe[a] + dataframe[b]) / 2.
Midpoint(df, a, b) ==
    [r \in DOMAIN df.rows |->
        RDiv(RAdd(df.rows[r].cells[a], df.rows[r].cells[b]), R(2))]

FillFrom(df, source_columns, target_column) ==
    SetCells(df, source_columns,
             replace_nan_with_other_column(df, source_columns, target_column))

\* preprocess_dataframe(dataframe, select_columns=[], with_root, with_midhip)
preprocess_dataframe(df0, with_root, with_midhip) ==
    LET xs == x_columns(df0)
        ys == y_columns(df0)
        x_left_hand_columns == ColumnsWith(xs, "leftHand")
        y_left_hand_columns == ColumnsWith(ys, "leftHand")
        x_right_hand_columns == ColumnsWith(xs, "rightHand")
        y_right_hand_columns == ColumnsWith(ys, "rightHand")
        x_face_columns == ColumnsWith(xs, "face")
        y_face_columns == ColumnsWith(ys, "face")
        d1 == IF with_root
              THEN SetColumn(
                     SetColumn(df0, "root_x",
                               Midpoint(df0, "pose_11_x", "pose_12_x")),
                     "root_y", Midpoint(df0, "pose_11_y", "pose_12_y"))
              ELSE df0
        d2 == IF with_midhip
              THEN SetColumn(
                     SetColumn(d1, "midhip_x",
                               Midpoint(d1, "pose_23_x", "pose_24_x")),
                     "midhip_y", Midpoint(d1, "pose_23_y", "pose_24_y"))
              ELSE d1
        d3 == FillFrom(d2, x_left_hand_columns, "pose_15_x")
        d4 == FillFrom(d3, y_left_hand_columns, "pose_15_y")
        d5 == FillFrom(d4, x_right_hand_columns, "pose_16_x")
        d6 == FillFrom(d5, y_right_hand_columns, "pose_16_y")
        d7 == FillFrom(d6, x_face_columns, "pose_0_x")
    IN  FillFrom(d7, y_face_columns, "pose_0_y")

\* raw tables: the pose joints the function reads, and one face, one left
\* hand and one right hand joint
RawColumns ==
    <<"pose_0_x", "pose_0_y", "pose_11_x", "pose_11_y", "pose_12_x",
      "pose_12_y", "pose_15_x", "pose_15_y", "pose_16_x", "pose_16_y",
      "pose_23_x", "pose_23_y", "pose_24_x", "pose_24_y", "face_0_x",
      "face_0_y", "leftHand_0_x", "leftHand_0_y", "rightHand_0_x",
      "rightHand_0_y">>
ColumnIndex(c) == CHOOSE i \in DOMAIN RawColumns : RawColumns[i] = c
Groups == {"leftHand", "rightHand", "face"}
\* a row whose joints of the groups in missing were not detected, on the
\* axes named; every other cell holds a value of its own
RawRow(r, missing, axes) ==
    [video |-> 1, frame |-> r - 1, label |-> 0,
     cells |-> [c \in SeqRange(RawColumns) |->
                  IF /\ \E g \in missing : Contains(c, g)
                     /\ \/ axes = "xy"
                        \/ axes = "x" /\ c \in SeqRange(x_columns([columns |-> RawColumns]))
                        \/ axes = "y" /\ c \in SeqRange(y_columns([columns |-> RawColumns]))
                  THEN NaN
                  ELSE R(30 * r + ColumnIndex(c))]]
RawRowChoices(r) ==
    {RawRow(r, missing, axes) :
        missing \in SUBSET Groups, axes \in {"xy", "x", "y"}}
RECURSIVE RawRowSeqs(_)
RawRowSeqs(n) ==
    IF n = 0 THEN {<<>>}
    ELSE {Append(q, row) : q \in RawRowSeqs(n - 1), row \in RawRowChoices(n)}
RawTables ==
    {[columns |-> RawColumns, rows |-> rows] :
        rows \in UNION {RawRowSeqs(n) : n \in 1..MaxRows}}

PreprocessDataframe ==
    /\ df_pc = "ready"
    /\ df_args.fn = "preprocess_dataframe"
    /\ df_out' = preprocess_dataframe(df_in, df_args.with_root,
                                      df_args.with_midhip)
    /\ df_pc' = "done"
    /\ UNCHANGED <<df_in, df_args, mapVars, tsiVars, objVars, evalVars, pipeVars>>

InitPreprocess ==
    /\ df_in \in RawTables
    /\ \E wr \in BOOLEAN, wm \in BOOLEAN :
          df_args = [fn |-> "preprocess_dataframe", with_root |-> wr,
                     with_midhip |-> wm]
    /\ df_out = EmptyTable
    /\ df_pc = "ready"
    /\ MapIdle
    /\ TsiIdle
    /\ TrainIdle
    /\ CacheIdle
    /\ ObjIdle
    /\ EvalIdle

NextPreprocess == PreprocessDataframe

SpecPreprocess == InitPreprocess /\ [][NextPreprocess]_vars

\* the anchor column of a hand or face column: same axis, left wrist for the
\* left hand, right wrist for the right hand, nose for the face
AnchorOf ==
    [leftHand_0_x |-> "pose_15_x", leftHand_0_y |-> "pose_15_y",
     rightHand_0_x |-> "pose_16_x", rightHand_0_y |-> "pose_16_y",
     face_0_x |-> "pose_0_x", face_0_y |-> "pose_0_y"]

\* C8: preprocess_dataframe replaces every missing cell of a left-hand,
\* right-hand or face column by the same-axis coordinate of the anchor joint
\* of the same row, and keeps every other cell of every input column, the
\* rows and their video, frame and label as they were.
C8_MissingCellsTakeTheAnchor ==
    df_pc = "done" =>
        /\ Len(df_out.rows) = Len(df_in.rows)
        /\ \A r \in DOMAIN df_in.rows :
              /\ df_out.rows[r].video = df_in.rows[r].video
              /\ df_out.rows[r].frame = df_in.rows[r].frame
              /\ df_out.rows[r].label = df_in.rows[r].label
              /\ \A c \in SeqRange(df_in.columns) :
                    df_out.rows[r].cells[c] =
                        IF IsNaN(df_in.rows[r].cells[c]) /\ c \in DOMAIN AnchorOf
                        THEN df_in.rows[r].cells[AnchorOf[c]]
                        ELSE df_in.rows[r].cells[c]

\* a table of two rows: the second misses its left hand on both axes, the
\* first has it, and both were filled or kept accordingly
C8_Witness ==
    /\ df_pc = "done"
    /\ Len(df_in.rows) = 2
    /\ IsNaN(df_in.rows[2].cells["leftHand_0_x"])
    /\ IsNaN(df_in.rows[2].cells["leftHand_0_y"])
    /\ ~IsNaN(df_in.rows[1].cells["leftHand_0_x"])
    /\ df_out.rows[2].cells["leftHand_0_x"] = df_in.rows[2].cells["pose_15_x"]
    /\ df_out.rows[2].cells["leftHand_0_y"] = df_in.rows[2].cells["pose_15_y"]
    /\ df_out.rows[1].cells["leftHand_0_x"] = df_in.rows[1].cells["leftHand_0_x"]

-----------------------------------------------------------------------------
(* normalize_dataframe and its two strategies, preprocessing.py:93-161.    *)

\* the values of the cells of the given columns of row r
RowValues(df, r, columns) == {df.rows[r].cells[c] : c \in SeqRange(columns)}
\* DataFrame.max / DataFrame.min skip NaN, and give NaN when nothing is left
SkipNaMax(S) == IF S \ {NaN} = {} THEN NaN ELSE RMaxOf(S \ {NaN})
SkipNaMin(S) == IF S \ {NaN} = {} THEN NaN ELSE RMinOf(S \ {NaN})
AbsAll(S) == {RAbs(v) : v \in S}

\* the array of the cells of the given columns, every cell v of row r
\* replaced by v - offset[r]
Minus(df, columns, offset) ==
    [r \in DOMAIN df.rows |->
        [c \in SeqRange(columns) |-> RSub(df.rows[r].cells[c], offset[r])]]
\* the same with v / divisor[r]
Over(df, columns, divisor) ==
    [r \in DOMAIN df.rows |->
        [c \in SeqRange(columns) |-> RDiv(df.rows[r].cells[c], divisor[r])]]

normalize_dataframe_from_neg1_to_1(df0) ==
    LET xs == x_columns(df0)
        ys == y_columns(df0)
        xys == xy_columns(df0)
        root_x == [r \in DOMAIN df0.rows |-> df0.rows[r].cells["root_x"]]
        root_y == [r \in DOMAIN df0.rows |-> df0.rows[r].cells["root_y"]]
        \* center x, y columns
        dx == SetCells(df0, xs, Minus(df0, xs, root_x))
        centered == SetCells(dx, ys, Minus(dx, ys, root_y))
        \* scale to (-1, 1): xy_data / scales
        scales == [r \in DOMAIN centered.rows |->
                      SkipNaMax(AbsAll(RowValues(centered, r, xys)))]
    IN  SetCells(centered, xys, Over(centered, xys, scales))

\* np.any(dataframe[columns] < 0, axis=1), np.any(dataframe[columns] > 1, axis=1)
AnyBelowZero(df, r, columns) ==
    \E v \in RowValues(df, r, columns) : RLess(v, Zero)
AnyAboveOne(df, r, columns) ==
    \E v \in RowValues(df, r, columns) : RLess(One, v)

\* preprocessing.py:131-145: rows with a negative x are moved by the absolute
\* value of their smallest x, and the same for y; a row outside the mask
\* keeps its cells (offset 0)
legacy_shift(df0) ==
    LET xs == x_columns(df0)
        ys == y_columns(df0)
        x_offset == [r \in DOMAIN df0.rows |->
                        IF AnyBelowZero(df0, r, xs)
                        THEN RAbs(SkipNaMin(RowValues(df0, r, xs)))
                        ELSE Zero]
        dx == SetCells(df0, xs, Minus(df0, xs, [r \in DOMAIN df0.rows |-> RNeg(x_offset[r])]))
        y_offset == [r \in DOMAIN dx.rows |->
                        IF AnyBelowZero(dx, r, ys)
                        THEN RAbs(SkipNaMin(RowValues(dx, r, ys)))
                        ELSE Zero]
    IN  SetCells(dx, ys, Minus(dx, ys, [r \in DOMAIN dx.rows |-> RNeg(y_offset[r])]))

\* preprocessing.py:153-159: the rows with a coordinate above 1 are divided,
\* in row order, by max_per_video.repeat(repetitions): the maxima of the
\* groups in ascending video order, each repeated once per masked row of its
\* video; a row outside the mask keeps its cells (divisor 1)
legacy_scale(df) ==
    LET xys == xy_columns(df)
        out_of_scale_mask ==
            SelectSeq([r \in DOMAIN df.rows |-> r],
                      LAMBDA r : AnyAboveOne(df, r, xys))
        masked == SeqRange(out_of_scale_mask)
        keys == SortSet({df.rows[r].video : r \in masked})
        group(k) == {r \in masked : df.rows[r].video = keys[k]}
        repetitions == [k \in DOMAIN keys |-> Cardinality(group(k))]
        max_per_video ==
            [k \in DOMAIN keys |->
                SkipNaMax(UNION {AbsAll(RowValues(df, r, xys)) : r \in group(k)})]
        \* the group whose maximum lands at position i of the repeated array
        group_at(i) ==
            CHOOSE k \in DOMAIN keys :
                /\ SumSeq(Prefix(repetitions, k - 1)) < i
                /\ i <= SumSeq(Prefix(repetitions, k))
        position(r) == CHOOSE i \in DOMAIN out_of_scale_mask :
                          out_of_scale_mask[i] = r
        max_per_video_repeated ==
            [r \in DOMAIN df.rows |->
                IF r \in masked THEN max_per_video[group_at(position(r))]
                ELSE One]
    IN  SetCells(df, xys, Over(df, xys, max_per_video_repeated))

normalize_dataframe_legacy(df0) == legacy_scale(legacy_shift(df0))

\* normalize_dataframe(dataframe, normalization)
normalize_dataframe(df, normalization) ==
    CASE normalization = "neg1_to_1" -> normalize_dataframe_from_neg1_to_1(df)
      [] normalization = "legacy" -> normalize_dataframe_legacy(df)

NormalizeDataframe ==
    /\ df_pc = "ready"
    /\ df_args.fn \in {"neg1_to_1", "legacy"}
    /\ df_out' = normalize_dataframe(df_in, df_args.fn)
    /\ df_pc' = "done"
    /\ UNCHANGED <<df_in, df_args, mapVars, tsiVars, objVars, evalVars, pipeVars>>

\* tables for neg1to1: one joint and the root, on one to MaxRows rows
NegColumns == <<"pose_0_x", "pose_0_y", "root_x", "root_y">>
NegVals == {-1, 0, 2}
NegRoots == {<<0, 0>>, <<2, -1>>}
NegRow(r, px, py, root) ==
    [video |-> 1, frame |-> r - 1, label |-> 0,
     cells |-> [c \in SeqRange(NegColumns) |->
                  CASE c = "pose_0_x" -> R(px)
                    [] c = "pose_0_y" -> R(py)
                    [] c = "root_x" -> R(root[1])
                    [] c = "root_y" -> R(root[2])]]
RECURSIVE NegRowSeqs(_)
NegRowSeqs(n) ==
    IF n = 0 THEN {<<>>}
    ELSE {Append(q, NegRow(n, px, py, root)) :
             q \in NegRowSeqs(n - 1), px \in NegVals, py \in NegVals,
             root \in NegRoots}
NegTables ==
    {[columns |-> NegColumns, rows |-> rows] :
        rows \in UNION {NegRowSeqs(n) : n \in 1..MaxRows}}

InitNeg1To1 ==
    /\ df_in \in NegTables
    /\ df_args = [fn |-> "neg1_to_1", with_root |-> FALSE, with_midhip |-> FALSE]
    /\ df_out = EmptyTable
    /\ df_pc = "ready"
    /\ MapIdle
    /\ TsiIdle
    /\ TrainIdle
    /\ CacheIdle
    /\ ObjIdle
    /\ EvalIdle

NextNeg1To1 == NormalizeDataframe

SpecNeg1To1 == InitNeg1To1 /\ [][NextNeg1To1]_vars

\* C5: after neg1to1 every row has maximum absolute coordinate 1, or is all
\* zero; a row whose coordinates all equal the root comes out as zeros.
C5_RowsScaledToOneOrZero ==
    df_pc = "done" =>
        \A r \in DOMAIN df_out.rows :
            LET out == RowValues(df_out, r, df_out.columns)
            IN  /\ \A v \in out : IsFinite(v)
                /\ \/ out = {Zero}
                   \/ SkipNaMax(AbsAll(out)) = One

\* tables for legacy: one joint, rows of videos 1 and 2 in any order
LegacyColumns == <<"pose_0_x", "pose_0_y">>
LegacyXs == {-2, 1, 2, 4}
LegacyYs == {0, 3}
LegacyRow(r, v, px, py) ==
    [video |-> v, frame |-> r - 1, label |-> 0,
     cells |-> [c \in SeqRange(LegacyColumns) |->
                  IF c = "pose_0_x" THEN Frac(px, 2) ELSE Frac(py, 2)]]
RECURSIVE LegacyRowSeqs(_)
LegacyRowSeqs(n) ==
    IF n = 0 THEN {<<>>}
    ELSE {Append(q, LegacyRow(n, v, px, py)) :
             q \in LegacyRowSeqs(n - 1), v \in 1..2, px \in LegacyXs,
             py \in LegacyYs}
LegacyTables ==
    {[columns |-> LegacyColumns, rows |-> rows] :
        rows \in UNION {LegacyRowSeqs(n) : n \in 1..MaxRows}}

InitLegacy ==
    /\ df_in \in LegacyTables
    /\ df_args = [fn |-> "legacy", with_root |-> FALSE, with_midhip |-> FALSE]
    /\ df_out = EmptyTable
    /\ df_pc = "ready"
    /\ MapIdle
    /\ TsiIdle
    /\ TrainIdle
    /\ CacheIdle
    /\ ObjIdle
    /\ EvalIdle

NextLegacy == NormalizeDataframe

SpecLegacy == InitLegacy /\ [][NextLegacy]_vars

\* the rows of video v with a coordinate above 1 after the shift step
OutOfRangeRows(df, v) ==
    {r \in DOMAIN df.rows :
        df.rows[r].video = v /\ AnyAboveOne(df, r, df.columns)}

\* C4: in legacy normalization every row of a video that has an out-of-range
\* row is divided by one factor, the largest absolute coordinate among that
\* video's out-of-range rows.
C4_OneScaleFactorPerVideo ==
    df_pc = "done" =>
        LET shifted == legacy_shift(df_in)
        IN  \A v \in VideoIds(df_in) :
                OutOfRangeRows(shifted, v) # {} =>
                    LET factor ==
                            SkipNaMax(UNION {AbsAll(RowValues(shifted, r, shifted.columns)) :
                                                r \in OutOfRangeRows(shifted, v)})
                    IN  \A r \in DOMAIN df_in.rows :
                            df_in.rows[r].video = v =>
                                \A c \in SeqRange(df_in.columns) :
                                    df_out.rows[r].cells[c] =
                                        RDiv(shifted.rows[r].cells[c], factor)

\* the factor of video v: the largest absolute coordinate among the rows of
\* v that are out of range after the shift step
OwnFactor(shifted, v) ==
    SkipNaMax(UNION {AbsAll(RowValues(shifted, r, shifted.columns)) :
                        r \in OutOfRangeRows(shifted, v)})

\* C15: in legacy normalization every out-of-range row is divided by the scale
\* factor of its own video, whatever the order of the rows of the table.
C15_RowsDividedByOwnVideoFactor ==
    df_pc = "done" =>
        LET shifted == legacy_shift(df_in)
        IN  \A r \in DOMAIN df_in.rows :
                r \in OutOfRangeRows(shifted, df_in.rows[r].video) =>
                    \A c \in SeqRange(df_in.columns) :
                        df_out.rows[r].cells[c] =
                            RDiv(shifted.rows[r].cells[c],
                                 OwnFactor(shifted, df_in.rows[r].video))

-----------------------------------------------------------------------------
(* dataframe_to_dataset on tables of any row order, dataset.py:23-46.      *)

\* tables of one to MaxLen rows, each row of any of the videos 1..MaxVideos,
\* in any order; video v carries label labs[v], and the joint of a row
\* carries (video, position of the row)
ShuffledTables ==
    {[columns |-> <<"pose_0_x", "pose_0_y">>,
      rows |-> [r \in DOMAIN vs |-> TableRow(vs[r], r - 1, labs[vs[r]])]] :
        vs \in UNION {[1..n -> 1..MaxVideos] : n \in 1..MaxLen},
        labs \in [1..MaxVideos -> Labels]}

\* the filter_video_ids arguments tried: none, and two groups of videos
VideoFilters == {{}, {1, 2}, {2, 3}}

DataframeToDataset ==
    /\ df_pc = "ready"
    /\ df_args.fn = "dataframe_to_dataset"
    /\ ds' = dataframe_to_dataset(df_in, joints_order, df_args.filter_video_ids)
    /\ df_pc' = "done"
    /\ UNCHANGED <<df_in, df_args, df_out, fieldVars, last_call, call_log,
                   raised, ncalls, mapVars, tsiVars, evalVars, pipeVars>>

InitBuilder ==
    /\ df_in \in ShuffledTables
    \* a filter that leaves at least one row
    /\ \E f \in VideoFilters :
          /\ f = {} \/ VideoIds(df_in) \cap f # {}
          /\ df_args = [fn |-> "dataframe_to_dataset", filter_video_ids |-> f]
    /\ df_out = EmptyTable
    /\ df_pc = "ready"
    /\ MapIdle
    /\ TsiIdle
    /\ TrainIdle
    /\ CacheIdle
    /\ ObjIdle
    /\ EvalIdle

NextBuilder == DataframeToDataset

SpecBuilder == InitBuilder /\ [][NextBuilder]_vars

\* the videos left by the filter
KeptVideos ==
    IF df_args.filter_video_ids = {} THEN VideoIds(df_in)
    ELSE VideoIds(df_in) \cap df_args.filter_video_ids
\* the frames of video v as the builder stacks them, and its label
FramesOf(v) ==
    {<<<<df_in.rows[r].cells["pose_0_x"], df_in.rows[r].cells["pose_0_y"], Zero>>>> :
        r \in GroupRows(df_in, v)}
LabelOf(v) == CHOOSE l \in {df_in.rows[r].label : r \in GroupRows(df_in, v)} : TRUE
KeptLabels == SortSet({LabelOf(v) : v \in KeptVideos})

\* C14: dataframe_to_dataset yields one example per distinct video of the
\* filtered table, and whatever the order of the rows each example is made of
\* exactly the rows of one video and carries that video's label.
C14_ExamplesHoldOneVideoAndItsLabel ==
    df_pc = "done" =>
        /\ Len(ds) = Cardinality(KeptVideos)
        /\ \A g \in DOMAIN ds :
              \E v \in KeptVideos :
                  /\ Len(ds[g].x) = Cardinality(GroupRows(df_in, v))
                  /\ {ds[g].x[i] : i \in DOMAIN ds[g].x} = FramesOf(v)
                  /\ ds[g].y = OneHot(KeptLabels, LabelOf(v))

-----------------------------------------------------------------------------
(* generate_train_dataset, dataset.py:49-78, with the train_map_fn of      *)
(* get_training_set under its default augmentations=[].                    *)

\* examples the parallel map works on at once, batches prefetch holds, the
\* largest shuffle buffer, and the passes followed of a repeated dataset
MaxParallel == 2
MaxPrefetch == 1
MaxBuffer == 2
MaxEpochs == 2

\* train_map_fn(x, y), dataset.py:164-170; train_augmentation is the empty
\* Sequential when augmentations=[], and returns its input
train_map_fn(e) ==
    [x |-> ResizeIfMoreThan(INPUT_HEIGHT,
               PadIfLessThan(INPUT_HEIGHT, ExpandDims(e.x))).ex[1],
     y |-> e.y]

\* .batch(batch_size) at the end of its input: drop_remainder is left at its
\* default, so a batch that is not full is emitted too
batch_drop_remainder(partial) == <<>>
batch_remainder(partial) == IF partial = <<>> THEN <<>> ELSE <<partial>>

\* .shuffle(buffer_size): the buffer takes the next element of the input
ShuffleFill ==
    /\ t_pc = "running"
    /\ t_read < Len(t_source)
    /\ Cardinality(t_buffer) < t_args.buffer_size
    /\ t_buffer' = t_buffer \cup {t_read + 1}
    /\ t_read' = t_read + 1
    /\ UNCHANGED <<t_args, t_source, t_inflight, t_batch, t_prefetch,
                   t_emitted, t_epoch, t_pc>>
    /\ UNCHANGED <<mapVars, tsiVars, objVars, evalVars, dfVars, cacheVars>>

\* shuffle yields an element, picked at random, once its buffer is full or
\* its input is exhausted
ShuffleReady ==
    \/ Cardinality(t_buffer) = t_args.buffer_size
    \/ t_read = Len(t_source)

\* .batch(batch_size): the batch with one more example, and whether it is full
BatchWith(e) == Append(t_batch, e)
BatchFull(e) == Len(BatchWith(e)) = t_args.batch_size

\* deterministic=True: .shuffle(buffer_size).map(train_map_fn).batch(batch_size),
\* one element at a time, a full batch going straight to the consumer
MapSequential ==
    /\ t_pc = "running"
    /\ t_args.deterministic
    /\ ShuffleReady
    /\ \E i \in t_buffer :
          LET e == train_map_fn(t_source[i])
          IN  /\ t_buffer' = t_buffer \ {i}
              /\ t_batch' = IF BatchFull(e) THEN <<>> ELSE BatchWith(e)
              /\ t_emitted' = IF BatchFull(e)
                              THEN Append(t_emitted, BatchWith(e))
                              ELSE t_emitted
    /\ UNCHANGED <<t_args, t_source, t_read, t_inflight, t_prefetch, t_epoch,
                   t_pc>>
    /\ UNCHANGED <<mapVars, tsiVars, objVars, evalVars, dfVars, cacheVars>>

\* deterministic=False: .map(train_map_fn, num_parallel_calls=AUTOTUNE,
\* deterministic=False) takes an element from shuffle and starts mapping it
MapStart ==
    /\ t_pc = "running"
    /\ ~t_args.deterministic
    /\ ShuffleReady
    /\ Cardinality(t_inflight) < MaxParallel
    /\ \E i \in t_buffer :
          /\ t_buffer' = t_buffer \ {i}
          /\ t_inflight' = t_inflight \cup {i}
    /\ UNCHANGED <<t_args, t_source, t_read, t_batch, t_prefetch, t_emitted,
                   t_epoch, t_pc>>
    /\ UNCHANGED <<mapVars, tsiVars, objVars, evalVars, dfVars, cacheVars>>

\* any of the calls under way finishes, and its result joins the batch; a
\* full batch goes to prefetch, which must have room for it
MapFinish ==
    /\ t_pc = "running"
    /\ ~t_args.deterministic
    /\ \E i \in t_inflight :
          LET e == train_map_fn(t_source[i])
          IN  /\ BatchFull(e) => Len(t_prefetch) < MaxPrefetch
              /\ t_inflight' = t_inflight \ {i}
              /\ t_batch' = IF BatchFull(e) THEN <<>> ELSE BatchWith(e)
              /\ t_prefetch' = IF BatchFull(e)
                               THEN Append(t_prefetch, BatchWith(e))
                               ELSE t_prefetch
    /\ UNCHANGED <<t_args, t_source, t_read, t_buffer, t_emitted, t_epoch,
                   t_pc>>
    /\ UNCHANGED <<mapVars, tsiVars, objVars, evalVars, dfVars, cacheVars>>

\* .prefetch(AUTOTUNE): the consumer takes the oldest batch held
Prefetched ==
    /\ t_prefetch # <<>>
    /\ t_emitted' = Append(t_emitted, Head(t_prefetch))
    /\ t_prefetch' = Tail(t_prefetch)
    /\ UNCHANGED <<t_args, t_source, t_read, t_buffer, t_inflight, t_batch,
                   t_epoch, t_pc>>
    /\ UNCHANGED <<mapVars, tsiVars, objVars, evalVars, dfVars, cacheVars>>

\* the input is exhausted and every element mapped: batch emits what it holds
EndOfInput ==
    /\ t_pc = "running"
    /\ t_read = Len(t_source)
    /\ t_buffer = {}
    /\ t_inflight = {}
    /\ LET rest == batch_remainder(t_batch)
       IN  IF t_args.deterministic
           THEN /\ t_emitted' = t_emitted \o rest
                /\ UNCHANGED t_prefetch
           ELSE /\ rest # <<>> => Len(t_prefetch) < MaxPrefetch
                /\ t_prefetch' = t_prefetch \o rest
                /\ UNCHANGED t_emitted
    /\ t_batch' = <<>>
    /\ t_pc' = "drained"
    /\ UNCHANGED <<t_args, t_source, t_read, t_buffer, t_inflight, t_epoch>>
    /\ UNCHANGED <<mapVars, tsiVars, objVars, evalVars, dfVars, cacheVars>>

\* the pass is over once the consumer has taken every batch; with repeat the
\* dataset starts again (followed for MaxEpochs passes)
EndOfPass ==
    /\ t_pc = "drained"
    /\ t_prefetch = <<>>
    /\ IF t_args.repeat /\ t_epoch < MaxEpochs
       THEN /\ t_pc' = "running"
            /\ t_epoch' = t_epoch + 1
            /\ t_read' = 0
            /\ t_emitted' = <<>>
       ELSE /\ t_pc' = "end"
            /\ UNCHANGED <<t_epoch, t_read, t_emitted>>
    /\ UNCHANGED <<t_args, t_source, t_buffer, t_inflight, t_batch,
                   t_prefetch>>
    /\ UNCHANGED <<mapVars, tsiVars, objVars, evalVars, dfVars, cacheVars>>

\* the training tables: videos 1..n of one, two and three frames in turn
TrainTables ==
    {TableOf([v \in 1..n |-> ((v - 1) % 3) + 1], [v \in 1..n |-> v % 2]) :
        n \in 1..MaxVideos}

\* generate_train_dataset(dataframe, columns, [], train_map_fn, repeat,
\*                        batch_size, buffer_size, deterministic)
InitTrain ==
    /\ \E df \in TrainTables : t_source = dataframe_to_dataset(df, joints_order, {})
    /\ \E d \in BOOLEAN, r \in BOOLEAN, b \in 1..MaxBatch, s \in 1..MaxBuffer :
          t_args = [deterministic |-> d, repeat |-> r, batch_size |-> b,
                    buffer_size |-> s]
    /\ t_read = 0 /\ t_buffer = {} /\ t_inflight = {}
    /\ t_batch = <<>> /\ t_prefetch = <<>> /\ t_emitted = <<>>
    /\ t_epoch = 1 /\ t_pc = "running"
    /\ MapIdle
    /\ TsiIdle
    /\ CacheIdle
    /\ ObjIdle
    /\ EvalIdle
    /\ DfIdle

NextTrain ==
    \/ ShuffleFill
    \/ MapSequential
    \/ MapStart
    \/ MapFinish
    \/ Prefetched
    \/ EndOfInput
    \/ EndOfPass

SpecTrain == InitTrain /\ [][NextTrain]_vars

\* the examples of a sequence of batches, in order
RECURSIVE Flat(_)
Flat(batches) ==
    IF batches = <<>> THEN <<>> ELSE Head(batches) \o Flat(Tail(batches))
\* where the consumer received the example of the i-th video with its label
EmittedAt(i) ==
    {p \in DOMAIN Flat(t_emitted) :
        Flat(t_emitted)[p] = train_map_fn(t_source[i])}

\* C11: with repeat=False a pass hands the consumer every video exactly once,
\* mapped and with its own label, in the ordered and in the parallel mode; at
\* no time has a video been handed over twice or with another label.
C11_EveryVideoOncePerPass ==
    ~t_args.repeat =>
        /\ \A i \in DOMAIN t_source : Cardinality(EmittedAt(i)) <= 1
        /\ \A p \in DOMAIN Flat(t_emitted) :
              \E i \in DOMAIN t_source : p \in EmittedAt(i)
        /\ t_pc = "end" =>
              \A i \in DOMAIN t_source : Cardinality(EmittedAt(i)) = 1

\* a parallel pass over three videos ended with the first example handed over
\* not being the first video, and a last batch that is not full
C11_Witness ==
    /\ t_pc = "end"
    /\ ~t_args.repeat
    /\ ~t_args.deterministic
    /\ Len(t_source) = 3
    /\ Len(t_emitted) = 2
    /\ Len(t_emitted[2]) = 1
    /\ 1 \notin EmittedAt(1)

-----------------------------------------------------------------------------
(* Passes over the dataset generate_test_dataset returns,                  *)
(* ds.map(test_map_fn, ...).cache(), dataset.py:100-107.  A pass iterates  *)
(* the dataset to its end.                                                 *)

\* the passes followed
MaxPasses == 3

\* .cache(): a pass reads the cache once it has been written to the end of
\* the input, and reads the map, filling the cache, before that
cache_never_serves == FALSE
cache_serves == cache_complete

\* a pass that finds no complete cache pulls a batch from the map: the map
\* runs in parallel with deterministic=False, so any bucketed batch not yet
\* mapped in this pass may come out next; the cache records it
CachePull ==
    /\ c_pass \in 1..MaxPasses
    /\ ~cache_serves
    /\ \E i \in DOMAIN bucketed \ c_done :
          LET out == test_map_fn(bucketed[i])
          IN  /\ mapped' = Append(mapped, [index |-> i, out |-> out])
              /\ cache' = Append(cache, out)
              /\ served' = Append(served, out)
              /\ c_done' = c_done \cup {i}
    /\ UNCHANGED <<c_pass, cache_complete, history>>
    /\ UNCHANGED <<dataframe, batch_size, elements, pos, windows, bucketed,
                   eval_pc>>
    /\ UNCHANGED <<mapVars, tsiVars, objVars, dfVars, trainVars>>

\* that pass reaches the end of the input: the cache is complete
CacheWritten ==
    /\ c_pass \in 1..MaxPasses
    /\ ~cache_serves
    /\ eval_pc = "exhausted"
    /\ c_done = DOMAIN bucketed
    /\ cache_complete' = TRUE
    /\ history' = Append(history, served)
    /\ served' = <<>>
    /\ c_done' = {}
    /\ c_pass' = c_pass + 1
    /\ UNCHANGED <<cache, evalVars>>
    /\ UNCHANGED <<mapVars, tsiVars, objVars, dfVars, trainVars>>

\* a pass that finds the cache complete yields its batches in the order held
CacheRead ==
    /\ c_pass \in 1..MaxPasses
    /\ cache_serves
    /\ Len(served) < Len(cache)
    /\ served' = Append(served, cache[Len(served) + 1])
    /\ UNCHANGED <<c_pass, cache, cache_complete, c_done, history, evalVars>>
    /\ UNCHANGED <<mapVars, tsiVars, objVars, dfVars, trainVars>>

\* and ends after the last of them
CacheReadEnd ==
    /\ c_pass \in 1..MaxPasses
    /\ cache_serves
    /\ Len(served) = Len(cache)
    /\ history' = Append(history, served)
    /\ served' = <<>>
    /\ c_pass' = c_pass + 1
    /\ UNCHANGED <<cache, cache_complete, c_done, evalVars>>
    /\ UNCHANGED <<mapVars, tsiVars, objVars, dfVars, trainVars>>

InitCache ==
    /\ \E df \in EvalTables, size \in 1..MaxBatch : GenerateTestDataset(df, size)
    /\ c_pass = 1 /\ cache = <<>> /\ cache_complete = FALSE /\ c_done = {}
    /\ served = <<>> /\ history = <<>>
    /\ MapIdle
    /\ TsiIdle
    /\ TrainIdle
    /\ ObjIdle
    /\ DfIdle

NextCache ==
    \/ BucketPull
    \/ BucketFlush
    \/ CachePull
    \/ CacheWritten
    \/ CacheRead
    \/ CacheReadEnd

SpecCache == InitCache /\ [][NextCache]_vars

\* C13: every pass after the first complete one yields the batches of the
\* first pass in the same order, and the map function is applied to no
\* bucketed batch twice, over all the passes.
C13_LaterPassesReplayTheFirst ==
    /\ \A p \in 2..Len(history) : history[p] = history[1]
    /\ c_pass > 1 =>
          /\ Len(served) <= Len(history[1])
          /\ \A k \in DOMAIN served : served[k] = history[1][k]
          /\ Len(mapped) = Len(history[1])
    /\ \A m \in DOMAIN mapped, n \in DOMAIN mapped :
          m # n => mapped[m].index # mapped[n].index

\* MaxPasses passes are over, of at least two batches each, the first of which
\* did not come out of the map in the order they were bucketed
C13_Witness ==
    /\ Len(history) = MaxPasses
    /\ Len(history[1]) >= 2
    /\ mapped[1].index # 1
    /\ history[MaxPasses] = history[1]

=============================================================================
